---- MODULE Spec2Model ----
(***************************************************************************)
(* Model of main.py: the OrdersBot Telegram front end of an agent that     *)
(* talks to a local MCP tool server.                                       *)
(*                                                                         *)
(* Two tasks share the asyncio loop: the main task (main() / OrdersBot.run)*)
(* and the transport's update fetcher, which takes one update at a time    *)
(* off the update queue and awaits its handler (the Application is built   *)
(* without concurrent_updates, main.py:186-190).  A handler is a sequence  *)
(* of steps, one per await; hpc is the await the handler is suspended at.  *)
(* Every external call (send, agent run, session clear, transport step)    *)
(* either returns or raises; the choice is nondeterministic.               *)
(***************************************************************************)
EXTENDS Naturals, Sequences, FiniteSets

\* ---------- bounds ----------
NumChats == 2
MaxUpdates == 2
MaxQueue == 1

Chats == 1..NumChats

\* ---------- reply texts ----------
WelcomeText == "welcome"
HelpText == "help"
ConfirmText == "confirm"
FallbackText == "fallback"
ApologyText == "apology"

\* result.final_output of a run that returned: None, the empty string, or text
NoneOutput == "<None>"
FinalOutputs == {NoneOutput, "", "answer"}
\* the handler's local result before Runner.run has returned
Unset == "<unset>"

Kinds == {"start", "help", "reset", "text"}
\* msg: update.message is set.  It is None for an edited message, which the
\* command and text filters also route to the handlers; the handlers take the
\* chat id from update.message only, so such an update carries none here.
Updates ==
    [kind : Kinds, chat : Chats, msg : {TRUE}]
        \cup [kind : Kinds, chat : {0}, msg : {FALSE}]
NoUpdate == [kind |-> "none", chat |-> 0, msg |-> FALSE]

VARIABLES
    tokenPresent,   \* TELEGRAM_BOT_TOKEN is set in the environment
    store,          \* sessions.db: the session id has stored turns
    mainpc,         \* position of the main task in main() / run()
    exc,            \* exception propagating in the main task
    exit,           \* how the process ended
    mcp,            \* the MCP server subprocess
    application,    \* self.application
    initialized,    \* app.initialize() done and not yet shut down
    running,        \* app.start() done and not yet stopped: fetcher alive
    polling,        \* updater.start_polling() done and not yet stopped
    shutdownLog,    \* the shutdown steps called so far, in order
    sessions,       \* self.sessions: chat id -> session handle, 0 = no entry
    nextHandle,     \* identity of the next SQLiteSession object created
    queue,          \* the transport's update queue
    arrived,        \* number of updates received so far
    cur,            \* the update being handled (or handled last)
    hpc,            \* the await the handler is suspended at
    session,        \* the handler's local variable session
    final_output,   \* result.final_output of the handler's agent run
    calls,          \* texts passed to reply_text for cur, in order
    sent,           \* texts delivered for cur, in order
    invoked,        \* number of Runner.run calls made for cur
    failedAt,       \* first call that raised while handling cur
    hresult,        \* how the handler of cur ended
    lastHandle,     \* handle last returned by _get_session since the last reset
    prevHandle,     \* lastHandle of the chat before the handler's _get_session
    resetDone,      \* a /reset of the chat returned and no agent run followed
    textSince       \* a text message of the chat got a session since the start
                    \* and since the last reset that removed the chat's entry

mainVars == <<mainpc, exc, exit, mcp, application, initialized, running,
              polling, shutdownLog>>
regVars == <<sessions, nextHandle, store>>
handlerVars == <<cur, hpc, session, final_output, calls, sent, invoked,
                 failedAt, hresult>>
ghostVars == <<lastHandle, prevHandle, resetDone, textSince>>
vars == <<tokenPresent, mainVars, regVars, queue, arrived, handlerVars,
          ghostVars>>

Init ==
    /\ tokenPresent \in BOOLEAN
    /\ store \in [Chats -> BOOLEAN]
    /\ mainpc = "launch"
    /\ exc = "none"
    /\ exit = "none"
    /\ mcp = "notstarted"
    /\ application = "None"
    /\ initialized = FALSE
    /\ running = FALSE
    /\ polling = FALSE
    /\ shutdownLog = <<>>
    /\ sessions = [c \in Chats |-> 0]
    /\ nextHandle = 1
    /\ queue = <<>>
    /\ arrived = 0
    /\ cur = NoUpdate
    /\ hpc = "idle"
    /\ session = 0
    /\ final_output = Unset
    /\ calls = <<>>
    /\ sent = <<>>
    /\ invoked = 0
    /\ failedAt = "none"
    /\ hresult = "none"
    /\ lastHandle = [c \in Chats |-> 0]
    /\ prevHandle = 0
    /\ resetDone = [c \in Chats |-> FALSE]
    /\ textSince = [c \in Chats |-> FALSE]

\* ================== main() and OrdersBot.run() ==================

\* async with MCPServerStdio(...): __aenter__ starts the subprocess or raises
MCPServerStdio_enter ==
    /\ mainpc = "launch"
    /\ \E ok \in BOOLEAN :
        IF ok
        THEN /\ mcp' = "running"
             /\ mainpc' = "construct"
             /\ UNCHANGED <<exc, exit>>
        ELSE /\ mcp' = mcp
             /\ exc' = "Exception"
             /\ mainpc' = "done"
             /\ exit' = "error"
    /\ UNCHANGED <<tokenPresent, application, initialized, running, polling,
                   shutdownLog, regVars, queue, arrived, handlerVars, ghostVars>>

\* Variant of OrdersBot.__init__ without the token check
OrdersBot_init_unchecked ==
    /\ mainpc = "construct"
    /\ exc' = exc
    /\ mainpc' = "run"
    /\ UNCHANGED <<tokenPresent, exit, mcp, application, initialized, running,
                   polling, shutdownLog, regVars, queue, arrived, handlerVars,
                   ghostVars>>

\* OrdersBot.__init__: raises RuntimeError when the token is missing; the call
\* is outside main's try, so the error goes straight to __aexit__
OrdersBot_init ==
    /\ mainpc = "construct"
    /\ IF ~tokenPresent
       THEN /\ exc' = "Exception"
            /\ mainpc' = "aexit"
       ELSE /\ exc' = exc
            /\ mainpc' = "run"
    /\ UNCHANGED <<tokenPresent, exit, mcp, application, initialized, running,
                   polling, shutdownLog, regVars, queue, arrived, handlerVars,
                   ghostVars>>

\* run(): build the Application if there is none yet
run_build ==
    /\ mainpc = "run"
    /\ application' = "built"
    /\ mainpc' = "initialize"
    /\ UNCHANGED <<tokenPresent, exc, exit, mcp, initialized, running, polling,
                   shutdownLog, regVars, queue, arrived, handlerVars, ghostVars>>

\* An awaited startup step ends by returning, by raising, or by the main task
\* being cancelled (interrupt).  It is outside run's try: a failure leaves run
\* at once.
StartupFailures == {"Exception", "Cancelled"}

app_initialize ==
    /\ mainpc = "initialize"
    /\ \/ /\ initialized' = TRUE
          /\ mainpc' = "start"
          /\ exc' = exc
       \/ \E e \in StartupFailures :
          /\ exc' = e
          /\ mainpc' = "main_except"
          /\ initialized' = initialized
    /\ UNCHANGED <<tokenPresent, exit, mcp, application, running, polling,
                   shutdownLog, regVars, queue, arrived, handlerVars, ghostVars>>

app_start ==
    /\ mainpc = "start"
    /\ \/ /\ running' = TRUE
          /\ mainpc' = "start_polling"
          /\ exc' = exc
       \/ \E e \in StartupFailures :
          /\ exc' = e
          /\ mainpc' = "main_except"
          /\ running' = running
    /\ UNCHANGED <<tokenPresent, exit, mcp, application, initialized, polling,
                   shutdownLog, regVars, queue, arrived, handlerVars, ghostVars>>

start_polling ==
    /\ mainpc = "start_polling"
    /\ \/ /\ polling' = TRUE
          /\ mainpc' = "wait"
          /\ exc' = exc
       \/ \E e \in StartupFailures :
          /\ exc' = e
          /\ mainpc' = "main_except"
          /\ polling' = polling
    /\ UNCHANGED <<tokenPresent, exit, mcp, application, initialized, running,
                   shutdownLog, regVars, queue, arrived, handlerVars, ghostVars>>

\* await stop_event.wait(): the event is never set, the wait ends only by an
\* interrupt.  KeyboardInterrupt/SystemExit are caught by run's except clause,
\* a cancellation of the main task passes through it; both enter the finally.
stop_event_wait ==
    /\ mainpc = "wait"
    /\ \E e \in {"KeyboardInterrupt", "Cancelled"} :
        exc' = IF e = "KeyboardInterrupt" THEN "none" ELSE e
    /\ mainpc' = "updater_stop"
    /\ UNCHANGED <<tokenPresent, exit, mcp, application, initialized, running,
                   polling, shutdownLog, regVars, queue, arrived, handlerVars,
                   ghostVars>>

\* Variant of the finally block that omits `await app.stop()`
updater_stop_no_app_stop ==
    /\ mainpc = "updater_stop"
    /\ shutdownLog' = Append(shutdownLog, "updater.stop")
    /\ \/ /\ polling' = FALSE
          /\ mainpc' = "app_shutdown"
          /\ exc' = exc
       \/ /\ exc' = "Exception"
          /\ mainpc' = "main_except"
          /\ polling' = polling
    /\ UNCHANGED <<tokenPresent, exit, mcp, application, initialized, running,
                   regVars, queue, arrived, handlerVars, ghostVars>>

\* finally: await app.updater.stop()
updater_stop ==
    /\ mainpc = "updater_stop"
    /\ shutdownLog' = Append(shutdownLog, "updater.stop")
    /\ \/ /\ polling' = FALSE
          /\ mainpc' = "app_stop"
          /\ exc' = exc
       \/ /\ exc' = "Exception"
          /\ mainpc' = "main_except"
          /\ polling' = polling
    /\ UNCHANGED <<tokenPresent, exit, mcp, application, initialized, running,
                   regVars, queue, arrived, handlerVars, ghostVars>>

\* finally: await app.stop(); it returns once the fetcher has handled every
\* update still in the queue
app_stop ==
    /\ mainpc = "app_stop"
    /\ \/ /\ queue = <<>>
          /\ hpc = "idle"
          /\ shutdownLog' = Append(shutdownLog, "app.stop")
          /\ running' = FALSE
          /\ mainpc' = "app_shutdown"
          /\ exc' = exc
       \/ /\ shutdownLog' = Append(shutdownLog, "app.stop")
          /\ exc' = "Exception"
          /\ mainpc' = "main_except"
          /\ running' = running
    /\ UNCHANGED <<tokenPresent, exit, mcp, application, initialized, polling,
                   regVars, queue, arrived, handlerVars, ghostVars>>

\* finally: await app.shutdown(); then run ends, re-raising what is pending
app_shutdown ==
    /\ mainpc = "app_shutdown"
    /\ shutdownLog' = Append(shutdownLog, "app.shutdown")
    /\ \/ /\ initialized' = FALSE
          /\ exc' = exc
       \/ /\ exc' = "Exception"
          /\ initialized' = initialized
    /\ mainpc' = "main_except"
    /\ UNCHANGED <<tokenPresent, exit, mcp, application, running, polling,
                   regVars, queue, arrived, handlerVars, ghostVars>>

\* main: except Exception (logged and dropped) / finally (log only)
main_except ==
    /\ mainpc = "main_except"
    /\ exc' = IF exc = "Exception" THEN "none" ELSE exc
    /\ mainpc' = "aexit"
    /\ UNCHANGED <<tokenPresent, exit, mcp, application, initialized, running,
                   polling, shutdownLog, regVars, queue, arrived, handlerVars,
                   ghostVars>>

\* What the end of the loop does to the fetcher: a handler still suspended is
\* cancelled
AbortHandler ==
    /\ hpc' = IF hpc = "idle" THEN "idle" ELSE "ended"
    /\ hresult' = IF hpc \in {"idle", "ended"} THEN hresult ELSE "aborted"
    /\ UNCHANGED <<cur, session, final_output, calls, sent, invoked, failedAt>>

\* Variant of the block exit that terminates the subprocess only when the
\* block ends without a pending exception (start/stop calls instead of a
\* context manager)
MCPServerStdio_exit_unscoped ==
    /\ mainpc = "aexit"
    /\ mcp' = IF exc = "none" THEN "terminated" ELSE mcp
    /\ mainpc' = "done"
    /\ exit' = IF exc = "Exception" THEN "error" ELSE "ok"
    /\ AbortHandler
    /\ UNCHANGED <<tokenPresent, exc, application, initialized, running,
                   polling, shutdownLog, regVars, queue, arrived, ghostVars>>

\* leaving the async with block: __aexit__ terminates the subprocess on the
\* normal and on the exceptional path; then main ends.  A cancellation leaves
\* asyncio.run as KeyboardInterrupt, which __main__ catches; a RuntimeError
\* from the constructor is not caught.
MCPServerStdio_exit ==
    /\ mainpc = "aexit"
    /\ mcp' = "terminated"
    /\ mainpc' = "done"
    /\ exit' = IF exc = "Exception" THEN "error" ELSE "ok"
    /\ AbortHandler
    /\ UNCHANGED <<tokenPresent, exc, application, initialized, running,
                   polling, shutdownLog, regVars, queue, arrived, ghostVars>>

\* ================== the transport: updater and update fetcher ==================

\* the updater receives an update and puts it on the update queue
receive ==
    /\ polling
    /\ mainpc # "done"
    /\ arrived < MaxUpdates
    /\ Len(queue) < MaxQueue
    /\ \E u \in Updates : queue' = Append(queue, u)
    /\ arrived' = arrived + 1
    /\ UNCHANGED <<tokenPresent, mainVars, regVars, handlerVars, ghostVars>>

\* run() lines 193-200: the handler an update is routed to
HandlerOf(kind) ==
    CASE kind = "start" -> "start"
      [] kind = "help" -> "help_command"
      [] kind = "reset" -> "reset_command"
      [] kind = "text" -> "handle_message"

\* Variant of the fetcher for an Application built with concurrent_updates:
\* the next handler is called while the previous one is still suspended
dispatch_concurrent ==
    /\ running
    /\ mainpc # "done"
    /\ hpc # "ended"
    /\ queue # <<>>
    /\ cur' = Head(queue)
    /\ queue' = Tail(queue)
    /\ hpc' = HandlerOf(Head(queue).kind)
    /\ hresult' = "running"
    /\ UNCHANGED <<tokenPresent, mainVars, regVars, arrived, session,
                   final_output, calls, sent, invoked, failedAt, ghostVars>>

\* the fetcher takes the next update and calls its handler; it does so only
\* when the previous handler has ended
dispatch ==
    /\ running
    /\ mainpc # "done"
    /\ hpc = "idle"
    /\ queue # <<>>
    /\ cur' = Head(queue)
    /\ queue' = Tail(queue)
    /\ hpc' = HandlerOf(Head(queue).kind)
    /\ hresult' = "running"
    /\ UNCHANGED <<tokenPresent, mainVars, regVars, arrived, session,
                   final_output, calls, sent, invoked, failedAt, ghostVars>>

\* the handler's call has ended, by return or by an exception that the
\* dispatcher logs: its frame is gone and the fetcher marks the update done
task_done ==
    /\ hpc = "ended"
    /\ mainpc # "done"
    /\ hpc' = "idle"
    /\ cur' = NoUpdate
    /\ session' = 0
    /\ final_output' = Unset
    /\ calls' = <<>>
    /\ sent' = <<>>
    /\ invoked' = 0
    /\ failedAt' = "none"
    /\ hresult' = "none"
    /\ prevHandle' = 0
    /\ UNCHANGED <<tokenPresent, mainVars, regVars, queue, arrived,
                   lastHandle, resetDone, textSince>>

\* the handler returns
Return ==
    /\ hpc' = "ended"
    /\ hresult' = "returned"

\* an exception leaves the handler; the dispatcher logs it and goes on
Raise(at) ==
    /\ hpc' = "ended"
    /\ hresult' = "raised"
    /\ failedAt' = IF failedAt = "none" THEN at ELSE failedAt

\* ================== command handlers ==================

\* Variant of start() that opens the chat's session before replying
start_eager ==
    /\ hpc = "start"
    /\ IF ~cur.msg
       THEN /\ Raise("update.message")
            /\ UNCHANGED <<calls, sent, sessions, nextHandle>>
       ELSE /\ sessions' = [sessions EXCEPT
                               ![cur.chat] = IF @ = 0 THEN nextHandle ELSE @]
            /\ nextHandle' = nextHandle + 1
            /\ calls' = Append(calls, WelcomeText)
            /\ \/ /\ sent' = Append(sent, WelcomeText)
                  /\ Return
                  /\ failedAt' = failedAt
               \/ /\ Raise("reply_text")
                  /\ sent' = sent
    /\ UNCHANGED <<tokenPresent, mainVars, store, queue, arrived, cur,
                   session, final_output, invoked, ghostVars>>

\* start(): update.message.reply_text(welcome); no guard on update.message
start ==
    /\ hpc = "start"
    /\ IF ~cur.msg
       THEN /\ Raise("update.message")
            /\ UNCHANGED <<calls, sent>>
       ELSE /\ calls' = Append(calls, WelcomeText)
            /\ \/ /\ sent' = Append(sent, WelcomeText)
                  /\ Return
                  /\ failedAt' = failedAt
               \/ /\ Raise("reply_text")
                  /\ sent' = sent
    /\ UNCHANGED <<tokenPresent, mainVars, regVars, queue, arrived, cur,
                   session, final_output, invoked, ghostVars>>

\* help_command(): update.message.reply_text(help); no guard on update.message
help_command ==
    /\ hpc = "help_command"
    /\ IF ~cur.msg
       THEN /\ Raise("update.message")
            /\ UNCHANGED <<calls, sent>>
       ELSE /\ calls' = Append(calls, HelpText)
            /\ \/ /\ sent' = Append(sent, HelpText)
                  /\ Return
                  /\ failedAt' = failedAt
               \/ /\ Raise("reply_text")
                  /\ sent' = sent
    /\ UNCHANGED <<tokenPresent, mainVars, regVars, queue, arrived, cur,
                   session, final_output, invoked, ghostVars>>

\* reset_command() up to its first await: the guard, the membership test, and
\* either the call of clear_session or the call of reply_text
reset_command ==
    /\ hpc = "reset_command"
    /\ IF ~cur.msg
       THEN /\ Return
            /\ UNCHANGED <<session, calls, ghostVars>>
       ELSE /\ hresult' = hresult
            /\ lastHandle' = [lastHandle EXCEPT ![cur.chat] = 0]
            /\ UNCHANGED <<prevHandle, resetDone, textSince>>
            /\ IF sessions[cur.chat] # 0
               THEN /\ session' = sessions[cur.chat]
                    /\ hpc' = "clear_session"
                    /\ calls' = calls
               ELSE /\ session' = session
                    /\ hpc' = "reset_reply"
                    /\ calls' = Append(calls, ConfirmText)
    /\ UNCHANGED <<tokenPresent, mainVars, regVars, queue, arrived, cur,
                   final_output, sent, invoked, failedAt>>

\* Variant of the clear step that clears every session (a delete without the
\* session id, self.sessions.clear())
reset_command_clear_all ==
    /\ hpc = "clear_session"
    /\ \/ /\ store' = [c \in Chats |-> FALSE]
          /\ sessions' = [c \in Chats |-> 0]
          /\ calls' = Append(calls, ConfirmText)
          /\ hpc' = "reset_reply"
          /\ textSince' = [c \in Chats |-> FALSE]
          /\ UNCHANGED <<hresult, failedAt>>
       \/ /\ Raise("clear_session")
          /\ UNCHANGED <<store, sessions, calls, textSince>>
    /\ UNCHANGED <<tokenPresent, mainVars, nextHandle, queue, arrived, cur,
                   session, final_output, sent, invoked, lastHandle,
                   prevHandle, resetDone>>

\* Variant of the clear step that forgets `del self.sessions[chat_id]`
reset_command_clear_keep ==
    /\ hpc = "clear_session"
    /\ \/ /\ store' = [store EXCEPT ![cur.chat] = FALSE]
          /\ sessions' = sessions
          /\ calls' = Append(calls, ConfirmText)
          /\ hpc' = "reset_reply"
          /\ textSince' = [textSince EXCEPT ![cur.chat] = FALSE]
          /\ UNCHANGED <<hresult, failedAt>>
       \/ /\ Raise("clear_session")
          /\ UNCHANGED <<store, sessions, calls, textSince>>
    /\ UNCHANGED <<tokenPresent, mainVars, nextHandle, queue, arrived, cur,
                   session, final_output, sent, invoked, lastHandle,
                   prevHandle, resetDone>>

\* await session.clear_session() returns: the stored history of the session id
\* is deleted, the entry is removed, reply_text is called; or it raises
reset_command_clear ==
    /\ hpc = "clear_session"
    /\ \/ /\ store' = [store EXCEPT ![cur.chat] = FALSE]
          /\ sessions' = [sessions EXCEPT ![cur.chat] = 0]
          /\ calls' = Append(calls, ConfirmText)
          /\ hpc' = "reset_reply"
          /\ textSince' = [textSince EXCEPT ![cur.chat] = FALSE]
          /\ UNCHANGED <<hresult, failedAt>>
       \/ /\ Raise("clear_session")
          /\ UNCHANGED <<store, sessions, calls, textSince>>
    /\ UNCHANGED <<tokenPresent, mainVars, nextHandle, queue, arrived, cur,
                   session, final_output, sent, invoked, lastHandle,
                   prevHandle, resetDone>>

\* await update.message.reply_text(confirmation) returns or raises
reset_command_reply ==
    /\ hpc = "reset_reply"
    /\ \/ /\ sent' = Append(sent, ConfirmText)
          /\ Return
          /\ failedAt' = failedAt
          /\ resetDone' = [resetDone EXCEPT ![cur.chat] = TRUE]
       \/ /\ Raise("reply_text")
          /\ UNCHANGED <<sent, resetDone>>
    /\ UNCHANGED <<tokenPresent, mainVars, regVars, queue, arrived, cur,
                   session, final_output, calls, invoked, lastHandle, prevHandle,
                   textSince>>

\* ================== text messages ==================

\* Variant of _get_session without the membership test
_get_session_fresh(chat_id) ==
    /\ sessions' = [sessions EXCEPT ![chat_id] = nextHandle]
    /\ nextHandle' = nextHandle + 1
    /\ session' = nextHandle

\* Variant of _get_session that creates the session without registering it
_get_session_unregistered(chat_id) ==
    IF sessions[chat_id] = 0
    THEN /\ session' = nextHandle
         /\ nextHandle' = nextHandle + 1
         /\ sessions' = sessions
    ELSE /\ session' = sessions[chat_id]
         /\ UNCHANGED <<sessions, nextHandle>>

\* _get_session(chat_id): the registered session, or a new SQLiteSession that
\* is registered first; the handler keeps the result in session
_get_session(chat_id) ==
    IF sessions[chat_id] = 0
    THEN /\ sessions' = [sessions EXCEPT ![chat_id] = nextHandle]
         /\ nextHandle' = nextHandle + 1
         /\ session' = nextHandle
    ELSE /\ session' = sessions[chat_id]
         /\ UNCHANGED <<sessions, nextHandle>>

\* Variant of the fallback that tests `is None` instead of truthiness
reply_text_for_not_none(output) ==
    IF output # NoneOutput THEN output ELSE FallbackText

\* result.final_output or "Non ho ottenuto alcuna risposta dall'agent."
reply_text_for(output) ==
    IF output # NoneOutput /\ output # "" THEN output ELSE FallbackText

\* the except clause of handle_message: log, then call reply_text(apology)
except_Exception(at) ==
    /\ failedAt' = at
    /\ calls' = Append(calls, ApologyText)
    /\ hpc' = "except"

\* handle_message() up to its first await: the guard, then the call of
\* send_action(TYPING)
handle_message ==
    /\ hpc = "handle_message"
    /\ IF ~cur.msg
       THEN Return
       ELSE /\ hpc' = "send_action"
            /\ hresult' = hresult
    /\ UNCHANGED <<tokenPresent, mainVars, regVars, queue, arrived, cur,
                   session, final_output, calls, sent, invoked, failedAt,
                   ghostVars>>

\* await send_action returns or raises (outside the try).  When it returns:
\* _get_session, where creating the SQLiteSession may raise (inside the try),
\* then the call of Runner.run.
handle_message_typing ==
    /\ hpc = "send_action"
    /\ \/ /\ Raise("send_action")
          /\ UNCHANGED <<sessions, nextHandle, session, calls, invoked,
                         ghostVars>>
       \/ /\ sessions[cur.chat] = 0
          /\ except_Exception("_get_session")
          /\ UNCHANGED <<sessions, nextHandle, session, invoked, hresult,
                         ghostVars>>
       \/ /\ _get_session(cur.chat)
          /\ invoked' = invoked + 1
          /\ hpc' = "Runner_run"
          /\ lastHandle' = [lastHandle EXCEPT ![cur.chat] = session']
          /\ prevHandle' = lastHandle[cur.chat]
          /\ textSince' = [textSince EXCEPT ![cur.chat] = TRUE]
          /\ UNCHANGED <<calls, failedAt, hresult, resetDone>>
    /\ UNCHANGED <<tokenPresent, mainVars, store, queue, arrived, cur,
                   final_output, sent>>

\* Variant of the agent step without the try/except: a failure leaves the
\* handler
handle_message_run_uncaught ==
    /\ hpc = "Runner_run"
    /\ \/ \E output \in FinalOutputs :
          /\ final_output' = output
          /\ store' = [store EXCEPT ![cur.chat] = TRUE]
          /\ calls' = Append(calls, reply_text_for(output))
          /\ hpc' = "reply_text"
          /\ UNCHANGED <<failedAt, invoked, hresult>>
       \/ /\ Raise("Runner_run")
          /\ UNCHANGED <<final_output, store, invoked, calls>>
    /\ resetDone' = [resetDone EXCEPT ![cur.chat] = FALSE]
    /\ UNCHANGED <<tokenPresent, mainVars, sessions, nextHandle, queue,
                   arrived, cur, session, sent, lastHandle, prevHandle,
                   textSince>>

\* Variant of the agent step that retries a failed run once
handle_message_run_retry ==
    /\ hpc = "Runner_run"
    /\ \/ \E output \in FinalOutputs :
          /\ final_output' = output
          /\ store' = [store EXCEPT ![cur.chat] = TRUE]
          /\ calls' = Append(calls, reply_text_for(output))
          /\ hpc' = "reply_text"
          /\ UNCHANGED <<failedAt, invoked>>
       \/ /\ invoked < 2
          /\ invoked' = invoked + 1
          /\ UNCHANGED <<final_output, store, calls, hpc, failedAt>>
       \/ /\ invoked >= 2
          /\ except_Exception("Runner_run")
          /\ UNCHANGED <<final_output, store, invoked>>
    /\ resetDone' = [resetDone EXCEPT ![cur.chat] = FALSE]
    /\ UNCHANGED <<tokenPresent, mainVars, sessions, nextHandle, queue,
                   arrived, cur, session, sent, hresult, lastHandle, prevHandle,
                   textSince>>

\* await Runner.run(agent, input, session) returns a result, its turn stored
\* in the session's history, and reply_text is called with the reply; or it
\* raises and the except clause runs
handle_message_run ==
    /\ hpc = "Runner_run"
    /\ \/ \E output \in FinalOutputs :
          /\ final_output' = output
          /\ store' = [store EXCEPT ![cur.chat] = TRUE]
          /\ calls' = Append(calls, reply_text_for(output))
          /\ hpc' = "reply_text"
          /\ UNCHANGED <<failedAt, invoked>>
       \/ /\ except_Exception("Runner_run")
          /\ UNCHANGED <<final_output, store, invoked>>
    /\ resetDone' = [resetDone EXCEPT ![cur.chat] = FALSE]
    /\ UNCHANGED <<tokenPresent, mainVars, sessions, nextHandle, queue,
                   arrived, cur, session, sent, hresult, lastHandle, prevHandle,
                   textSince>>

\* Variant of the answer step with the apology in a finally clause: it is
\* sent after a delivered answer too
handle_message_reply_finally ==
    /\ hpc = "reply_text"
    /\ \/ /\ sent' = Append(sent, calls[Len(calls)])
          /\ calls' = Append(calls, ApologyText)
          /\ hpc' = "except"
          /\ UNCHANGED <<failedAt, hresult>>
       \/ /\ except_Exception("reply_text")
          /\ UNCHANGED <<sent, hresult>>
    /\ UNCHANGED <<tokenPresent, mainVars, regVars, queue, arrived, cur,
                   session, final_output, invoked, ghostVars>>

\* await update.message.reply_text(reply_text, parse_mode="Markdown") returns,
\* or raises and the except clause runs
handle_message_reply ==
    /\ hpc = "reply_text"
    /\ \/ /\ sent' = Append(sent, calls[Len(calls)])
          /\ Return
          /\ UNCHANGED <<calls, failedAt>>
       \/ /\ except_Exception("reply_text")
          /\ UNCHANGED <<sent, hresult>>
    /\ UNCHANGED <<tokenPresent, mainVars, regVars, queue, arrived, cur,
                   session, final_output, invoked, ghostVars>>

\* await update.message.reply_text(apology) in the except clause returns, or
\* raises and the exception leaves the handler
handle_message_except ==
    /\ hpc = "except"
    /\ \/ /\ sent' = Append(sent, ApologyText)
          /\ Return
       \/ /\ hpc' = "ended"
          /\ hresult' = "raised"
          /\ sent' = sent
    /\ UNCHANGED <<tokenPresent, mainVars, regVars, queue, arrived, cur,
                   session, final_output, calls, invoked, failedAt, ghostVars>>

\* ================== specification ==================

Next ==
    \/ MCPServerStdio_enter
    \/ OrdersBot_init
    \/ run_build
    \/ app_initialize
    \/ app_start
    \/ start_polling
    \/ stop_event_wait
    \/ updater_stop
    \/ app_stop
    \/ app_shutdown
    \/ main_except
    \/ MCPServerStdio_exit
    \/ receive
    \/ dispatch
    \/ task_done
    \/ start
    \/ help_command
    \/ reset_command
    \/ reset_command_clear
    \/ reset_command_reply
    \/ handle_message
    \/ handle_message_typing
    \/ handle_message_run
    \/ handle_message_reply
    \/ handle_message_except

Spec == Init /\ [][Next]_vars

TypeOK ==
    /\ tokenPresent \in BOOLEAN
    /\ store \in [Chats -> BOOLEAN]
    /\ mainpc \in {"launch", "construct", "run", "initialize", "start",
                   "start_polling", "wait", "updater_stop", "app_stop",
                   "app_shutdown", "main_except", "aexit", "done"}
    /\ exc \in {"none", "Exception", "Cancelled"}
    /\ exit \in {"none", "ok", "error"}
    /\ mcp \in {"notstarted", "running", "terminated"}
    /\ application \in {"None", "built"}
    /\ sessions \in [Chats -> 0..MaxUpdates]
    /\ Len(queue) <= MaxQueue
    /\ arrived \in 0..MaxUpdates
    /\ cur \in Updates \cup {NoUpdate}
    /\ hpc \in {"idle", "ended", "start", "help_command", "reset_command",
                "clear_session", "reset_reply", "handle_message",
                "send_action", "Runner_run", "reply_text", "except"}
    /\ hresult \in {"none", "running", "returned", "raised", "aborted"}
    /\ invoked \in 0..1

\* ================== properties ==================

TextEnded ==
    cur.kind = "text" /\ cur.msg /\ hresult \in {"returned", "raised"}

ResetEnded ==
    cur.kind = "reset" /\ cur.msg /\ hresult \in {"returned", "raised"}

\* C1: once a /reset of a chat has been handled, the session the next
\* _get_session of that chat yields (the one the agent run in progress was
\* given) has an empty stored history.
C1_HistoryEmptyAfterReset ==
    \A c \in Chats :
        (hpc = "Runner_run" /\ cur.chat = c /\ resetDone[c]) => ~store[c]

C3_ApologyAndNoEscape ==
    (TextEnded /\ failedAt = "Runner_run")
        => (calls = <<ApologyText>> /\ hresult = "returned")

\* a step of a handler that is neither its dispatch nor the end of the process
HandlerStep == hpc \notin {"idle", "ended"} /\ hpc' # hpc /\ mainpc' # "done"

\* C3 as amended: when the agent run raised, the apology is the only text the
\* handler passes to reply_text; it is delivered and the handler returns when
\* that send succeeds, nothing is delivered and the send's exception leaves the
\* handler when it fails; no step of the handler changes the state of the
\* main task or of the transport.
C3_ApologyUnlessSendFails ==
    /\ [](( TextEnded /\ failedAt = "Runner_run")
            => /\ calls = <<ApologyText>>
               /\ hresult = "returned" => sent = <<ApologyText>>
               /\ hresult = "raised" => sent = <<>>)
    /\ [][HandlerStep => UNCHANGED mainVars]_vars

C3_Witness ==
    /\ TextEnded
    /\ failedAt = "Runner_run"
    /\ hresult = "returned"
    /\ sent = <<ApologyText>>
    /\ mainpc = "wait"
    /\ running
    /\ polling

\* C4: for a text message whose handler has ended, the handler has sent a
\* reply (it has passed a text to reply_text).
C4_AlwaysAnswered ==
    TextEnded => calls # <<>>

\* C5: once run() has been left, the three shutdown steps have been called.
C5_ShutdownOnEveryPath ==
    (application = "built" /\ mainpc \in {"main_except", "aexit", "done"})
        => shutdownLog = <<"updater.stop", "app.stop", "app.shutdown">>

\* C6: when main has ended, the subprocess is not running: it has been
\* terminated, or it was never started because its launch failed.
C6_SubprocessTerminated ==
    mainpc = "done" =>
        \/ mcp = "terminated"
        \/ mcp = "notstarted" /\ application = "None" /\ exit = "error"

C6_Witness ==
    /\ mainpc = "done"
    /\ mcp = "terminated"
    /\ shutdownLog = <<"updater.stop">>

\* C7: no empty text is ever passed to reply_text, and when the agent run
\* returned, the first text passed is the final output if that is non-empty
\* and the fallback otherwise; what is delivered first when that send
\* succeeds is that text.
C7_OutputOrFallback ==
    /\ \A i \in 1..Len(calls) : calls[i] # "" /\ calls[i] # NoneOutput
    /\ final_output # Unset =>
        /\ Len(calls) >= 1
        /\ calls[1] = IF final_output \in {NoneOutput, ""}
                      THEN FallbackText ELSE final_output
        /\ (hresult = "returned" /\ failedAt = "none") => sent = <<calls[1]>>

C7_Witness ==
    /\ cur.kind = "text"
    /\ final_output = ""
    /\ hresult = "returned"
    /\ sent = <<FallbackText>>

\* C8 as stated: a text message whose handler has ended had exactly one
\* agent run.
C8_ExactlyOnce ==
    TextEnded => invoked = 1

\* C8 as amended: never more than one agent run per update; a text message
\* whose handler has ended had one run exactly when the typing indicator was
\* sent and the session was obtained, and none otherwise.
C8_AtMostOnce ==
    /\ invoked <= 1
    /\ TextEnded =>
        (invoked = 1 <=> failedAt \notin {"send_action", "_get_session"})

C8_Witness ==
    /\ TextEnded
    /\ invoked = 1
    /\ failedAt = "reply_text"
    /\ sent = <<ApologyText>>

\* C9 as stated: after a /reset has been handled the chat has no entry and the
\* confirmation has been sent (passed to reply_text).
C9_ResetRemovesAndConfirms ==
    ResetEnded => (sessions[cur.chat] = 0 /\ calls = <<ConfirmText>>)

\* C9 as amended: after a /reset that carries a message has been handled,
\* unless clear_session raised, the chat has no entry, its stored history is
\* empty if it had one, and the confirmation is the one text passed to
\* reply_text (delivered when that send succeeds); when clear_session raised
\* the entry is still there and nothing was passed to reply_text.
C9_ResetUnlessClearFails ==
    ResetEnded =>
        IF failedAt = "clear_session"
        THEN /\ sessions[cur.chat] = session
             /\ session # 0
             /\ calls = <<>>
             /\ sent = <<>>
        ELSE /\ sessions[cur.chat] = 0
             /\ session # 0 => ~store[cur.chat]
             /\ calls = <<ConfirmText>>
             /\ hresult = "returned" => sent = <<ConfirmText>>

C9_Witness ==
    /\ ResetEnded
    /\ session # 0
    /\ sessions[cur.chat] = 0
    /\ sent = <<ConfirmText>>

\* C10: without the token the constructor fails: the application is never
\* built, initialized or started, no update is received or handled, nothing is
\* replied, and the process ends with the error.
C10_NoTokenNoTransport ==
    ~tokenPresent =>
        /\ application = "None"
        /\ ~initialized /\ ~running /\ ~polling
        /\ arrived = 0 /\ queue = <<>>
        /\ cur = NoUpdate /\ hpc = "idle"
        /\ calls = <<>> /\ sent = <<>>
        /\ mainpc \in {"launch", "construct", "aexit", "done"}
        /\ mainpc = "done" => exit = "error"

C10_Witness ==
    /\ ~tokenPresent
    /\ mainpc = "done"
    /\ mcp = "terminated"
    /\ exit = "error"

\* C11: the registry holds at most one handle per chat and no handle for two
\* chats, and the handle an agent run in progress was given is the one the
\* registry maps its chat to.
C11_RegistryIsTruth ==
    /\ \A a, b \in Chats :
          (a # b /\ sessions[a] # 0) => sessions[a] # sessions[b]
    /\ \A c \in Chats : sessions[c] < nextHandle
    /\ hpc = "Runner_run" =>
          (session # 0 /\ sessions[cur.chat] = session)

C11_Witness ==
    /\ hpc = "Runner_run"
    /\ resetDone[cur.chat]
    /\ session # 0
    /\ sessions[cur.chat] = session

C13_CommandsAlwaysReply ==
    (cur.kind \in {"start", "help"} /\ hresult \in {"returned", "raised"})
        => calls = <<IF cur.kind = "start" THEN WelcomeText ELSE HelpText>>

\* The lifecycle state of run(): where the main task is.  Once run() has been
\* left it is stopped when the finally block ran to its end (app.shutdown was
\* called last and returned), and failed when a step raised.
ShutdownOrder == <<"updater.stop", "app.stop", "app.shutdown">>

Lifecycle ==
    CASE mainpc \in {"launch", "construct", "run", "initialize"}
            -> "uninitialized"
      [] mainpc \in {"start", "start_polling"} -> "initialized"
      [] mainpc = "wait" -> "polling"
      [] mainpc \in {"updater_stop", "app_stop", "app_shutdown"} -> "stopping"
      [] OTHER ->
            IF /\ shutdownLog # <<>>
               /\ shutdownLog[Len(shutdownLog)] = "app.shutdown"
               /\ ~initialized
            THEN "stopped" ELSE "failed"

Rank(l) ==
    CASE l = "uninitialized" -> 0
      [] l = "initialized" -> 1
      [] l = "polling" -> 2
      [] l = "stopping" -> 3
      [] l = "stopped" -> 4
      [] l = "failed" -> 5

\* the fetcher calls a handler
HandlerCalled == cur' # cur /\ cur' # NoUpdate

\* the parts of C14 that do not concern the handling of chat events: the
\* lifecycle never moves back, polling is left only for stopping, the shutdown
\* steps are called in their order, and stopped is reached only after all
\* three, with the transport stopped
LifecycleForward ==
    /\ [][Rank(Lifecycle') >= Rank(Lifecycle)]_vars
    /\ [][(Lifecycle = "polling" /\ Lifecycle' # "polling")
            => Lifecycle' = "stopping"]_vars
    /\ [](/\ Len(shutdownLog) <= 3
          /\ \A i \in 1..Len(shutdownLog) : shutdownLog[i] = ShutdownOrder[i])
    /\ [](Lifecycle = "stopped" =>
            (shutdownLog = ShutdownOrder /\ ~running /\ ~polling))

\* C14 as stated: the lifecycle moves forward as above, and a chat event is
\* handled only in polling.
C14_HandledOnlyInPolling ==
    /\ LifecycleForward
    /\ [][HandlerCalled => Lifecycle = "polling"]_vars

\* C14 as amended: the lifecycle moves forward as above; no update is received
\* or handled before polling; updates are received only while the updater
\* polls and handled only while the fetcher runs, which goes on during
\* stopping until app.stop has returned; once stopped is reached no handler is
\* in progress and no update is left.
C14_HandledUntilAppStop ==
    /\ LifecycleForward
    /\ [][arrived' # arrived =>
            (polling /\ Rank(Lifecycle) >= 2)]_vars
    /\ [][(HandlerCalled \/ HandlerStep) =>
            (running /\ Rank(Lifecycle) >= 2 /\ Lifecycle # "stopped")]_vars
    /\ [](Lifecycle = "stopped" => (hpc = "idle" /\ queue = <<>>))

C14_Witness ==
    /\ Lifecycle = "stopped"
    /\ shutdownLog = ShutdownOrder
    /\ arrived > 0
    /\ exit = "ok"

\* C15: the subprocess runs whenever the transport is initialized, started or
\* polling (it is started before and terminated after), and during every
\* agent run.
C15_SubprocessOutlivesTransport ==
    /\ (initialized \/ running \/ polling) => mcp = "running"
    /\ hpc = "Runner_run" => mcp = "running"

\* C16 as stated: between handlers, a chat has an entry only if a text message
\* of the chat got a session since the start and since the last reset handled
\* for the chat; a command's handler makes no agent run.
C16_EntryOnlyAfterText ==
    /\ (hpc \in {"idle", "ended"} /\ hresult # "aborted") =>
          \A c \in Chats : sessions[c] # 0 => lastHandle[c] # 0
    /\ cur.kind \in {"start", "help", "reset"} => invoked = 0

\* C16 as amended: a chat has an entry only if a text message of the chat got
\* a session since the start and since the last reset of the chat whose
\* clear_session returned; no step of a command's handler adds an entry or
\* makes an agent run.
C16_EntryOnlyAfterTextSinceRemoval ==
    /\ [](\A c \in Chats : sessions[c] # 0 => textSince[c])
    /\ [](cur.kind \in {"start", "help", "reset"} =>
            (invoked = 0 /\ final_output = Unset))
    /\ [][(cur.kind \in {"start", "help", "reset"} /\ cur' = cur) =>
            \A c \in Chats : sessions[c] = 0 => sessions'[c] = 0]_vars

C16_Witness ==
    /\ ResetEnded
    /\ failedAt = "clear_session"
    /\ sessions[cur.chat] # 0
    /\ textSince[cur.chat]
    /\ lastHandle[cur.chat] = 0

C18_AtMostOneReply ==
    cur.kind = "text" =>
        /\ Len(sent) <= 1
        /\ Len(calls) <= 2
        /\ (\E i \in 1..Len(calls) : calls[i] = ApologyText) =>
              /\ failedAt \in {"_get_session", "Runner_run", "reply_text"}
              /\ calls[Len(calls)] = ApologyText
              /\ \A i \in 1..Len(sent) : sent[i] = ApologyText
        /\ (sent # <<>> /\ sent[1] # ApologyText) =>
              (calls = sent /\ failedAt = "none")
        /\ (failedAt = "reply_text" /\ hresult = "returned") =>
              (sent = <<ApologyText>> /\ Len(calls) = 2)

C18_Witness ==
    /\ TextEnded
    /\ final_output = "answer"
    /\ failedAt = "reply_text"
    /\ calls = <<"answer", ApologyText>>
    /\ sent = <<ApologyText>>

====
